---- MODULE Spec2Model ----
(***************************************************************************)
(* DatabaseAPINew (compileyeastdatabase/Database/DatabaseApi.py): the      *)
(* constructor provisions an SQLite file with the tables chr_map,          *)
(* background and regions and the views region_background_agg and          *)
(* total_bg_hops.  One action per statement of the constructor and of the  *)
(* four methods it calls; pc is the position in the running method.        *)
(*                                                                         *)
(* Columns that neither view's WHERE / GROUP BY reads (depth, strand,      *)
(* annotation, name, score, common_name, the chr_map aliases) are left out *)
(* of the rows.  The id columns are INTEGER PRIMARY KEY, assigned by the   *)
(* engine on insert.  SQL NULL is NULL_TEXT / NULL_INT.                    *)
(***************************************************************************)
EXTENDS Integers, Sequences, FiniteSets, TLC

\* ------------------------------------------------------------------ bounds
MaxPos == 1
MaxDfRows == 1
MaxChrMapRows == 2
MaxPreexisting == 1
MaxViewDfRows == 1

VARIABLES
    arg,                \* what the caller passed as db_loc: a path to a file that
                        \* does not exist yet ("fresh_path") or does
                        \* ("existing_path"), a path under a missing directory, or
                        \* an object without resolve(), such as a str
    pc,                 \* position in the running method
    caller,             \* "init": called by __init__; "client": called on the built object
    result,             \* of the constructor: "running", "returned", "raised"
    error,              \* the exception the last call ended with, or "none"
    failedAt,           \* pc at which that exception was raised
    lastCall,           \* the method the client called last, or "none"
    fileExists,         \* the target file exists on disk
    schema,             \* sqlite_master: object name -> kind
    tables,             \* rows of chr_map, background, regions, in rowid order
    viewQuery,          \* the SELECT stored for each of the two view names
    openConns,          \* connections to the target file that are open
    chr_map_df,         \* Resources.yeast_chr_map, parsed
    background_df_list, \* Resources.yeast_background_adh1 / _sir4, parsed
    regions_df_list,    \* Resources.yeast_promoters_yiming / _not_orf, parsed
    it,                 \* frames the running `for df in df_list` has written
    log                 \* statements the constructor has executed, in order

vars == <<arg, pc, caller, result, error, failedAt, lastCall, fileExists, schema,
          tables, viewQuery, openConns, chr_map_df, background_df_list,
          regions_df_list, it, log>>

inputs == <<arg, chr_map_df, background_df_list, regions_df_list>>

\* ------------------------------------------------------------- SQL values
NULL_TEXT == "<NULL>"
NULL_INT == 0 - 1

Chrs == {"chrI", "chrII"}
Positions == 0..MaxPos
BgSamples == {"adh1", "sir4"}
RegionSamples == {"yiming", "not_orf"}

TableNames == {"chr_map", "background", "regions"}
IndexNames == {"background_index", "regions_index"}
ViewNames == {"region_background_agg", "total_bg_hops"}
ObjectNames == TableNames \cup IndexNames \cup ViewNames

SeqsUpTo(S, n) == UNION {[1..k -> S] : k \in 0..n}

RECURSIVE SumLen(_)
SumLen(df_list) ==
    IF df_list = <<>> THEN 0 ELSE Len(Head(df_list)) + SumLen(Tail(df_list))

RECURSIVE Concat(_)
Concat(df_list) ==
    IF df_list = <<>> THEN <<>> ELSE Head(df_list) \o Concat(Tail(df_list))

\* ---------------------------------------------------------------- tables
ChrMapDfRows == [ucsc : Chrs]
BackgroundDfRows(chrs, starts, ends, samples) ==
    [chr : chrs, start : starts, end : ends, sample : samples]
RegionsDfRows(chrs, starts, ends, samples) ==
    [chr : chrs, start : starts, end : ends, sample : samples]

\* CREATE TABLE / CREATE INDEX / CREATE VIEW name: SQLite keeps tables, indexes
\* and views in one namespace and has no IF NOT EXISTS here.
CanCreateIfNotExists(s, name) == TRUE
CanCreate(s, name) == s[name] = "none"

\* DROP VIEW IF EXISTS name: an error only when name is a table.
CanDropView(s, name) == s[name] # "table"
DropView(s, name) == IF s[name] = "view" THEN [s EXCEPT ![name] = "none"] ELSE s

\* "ucsc" is the PRIMARY KEY of chr_map: an insert that repeats a key fails.
UniqueUcsc(rows) ==
    \A i, j \in 1..Len(rows) : rows[i].ucsc = rows[j].ucsc => i = j

NextRowid(table) == Len(table) + 1

\* DataFrame.to_sql(name, engine, if_exists=..., index=False): the frame's rows
\* go in one transaction; "id" is not a column of the frame.
ToSqlReplace(table, df) ==
    [i \in 1..Len(df) |-> df[i] @@ [id |-> i]]
ToSqlAppend(table, df) ==
    table \o [i \in 1..Len(df) |-> df[i] @@ [id |-> NextRowid(table) + i - 1]]

\* ------------------------------------------------- SQL three-valued logic
\* A comparison with NULL is NULL; WHERE keeps a row only when its condition
\* is true.
EqText(a, b) ==
    IF a = NULL_TEXT \/ b = NULL_TEXT THEN "null"
    ELSE IF a = b THEN "true" ELSE "false"

LeInt(a, b) ==
    IF a = NULL_INT \/ b = NULL_INT THEN "null"
    ELSE IF a <= b THEN "true" ELSE "false"

LtInt(a, b) ==
    IF a = NULL_INT \/ b = NULL_INT THEN "null"
    ELSE IF a < b THEN "true" ELSE "false"

And3(p, q) ==
    IF p = "false" \/ q = "false" THEN "false"
    ELSE IF p = "null" \/ q = "null" THEN "null"
    ELSE "true"

\* x BETWEEN lo AND hi is x >= lo AND x <= hi
BetweenExclusiveEnd(x, lo, hi) == And3(LeInt(lo, x), LtInt(x, hi))
Between(x, lo, hi) == And3(LeInt(lo, x), LeInt(x, hi))

\* ------------------------------------------------------------- the views
\* FROM regions as r LEFT JOIN background as x, with no ON: every r with every
\* x, and an r with no x at all (an empty background) with the all-NULL row 0.
NullRow ==
    [id |-> NULL_INT, chr |-> NULL_TEXT, start |-> NULL_INT, end |-> NULL_INT,
     sample |-> NULL_TEXT]

RightRow(background, j) == IF j = 0 THEN NullRow ELSE background[j]

LeftJoin(regions, background) ==
    {<<i, j>> : i \in 1..Len(regions),
                j \in IF background = <<>> THEN {0} ELSE 1..Len(background)}

\* WHERE (x.chr = r.chr AND x.start BETWEEN r.start AND r.end)
Where(r, x) == And3(EqText(x.chr, r.chr), Between(x.start, r.start, r.end))

\* GROUP BY regions_sample, background_sample, r.chr, r.start, r.end, r.id
GroupBy(r, x) == <<r.sample, x.sample, r.chr, r.start, r.end, r.id>>

\* SELECT ... COUNT(*) as background_hops ... of create_view_sql
RegionBackgroundAggJoinedOn(regions, background) ==
    LET hit == {p \in LeftJoin(regions, background) :
                    p[2] # 0 /\ Where(regions[p[1]], background[p[2]]) = "true"}
        kept == hit \cup {<<i, 0>> : i \in {i \in 1..Len(regions) :
                                                \A p \in hit : p[1] # i}}
        key(p) == GroupBy(regions[p[1]], RightRow(background, p[2]))
    IN  {[chr |-> k[3], start |-> k[4], end |-> k[5],
          background_hops |-> Cardinality({p \in kept : key(p) = k}),
          regions_sample |-> k[1], background_sample |-> k[2],
          region_id |-> k[6]] : k \in {key(p) : p \in kept}}
RegionBackgroundAgg(regions, background) ==
    LET kept == {p \in LeftJoin(regions, background) :
                    Where(regions[p[1]], RightRow(background, p[2])) = "true"}
        key(p) == GroupBy(regions[p[1]], RightRow(background, p[2]))
    IN  {[chr |-> k[3], start |-> k[4], end |-> k[5],
          background_hops |-> Cardinality({p \in kept : key(p) = k}),
          regions_sample |-> k[1], background_sample |-> k[2],
          region_id |-> k[6]] : k \in {key(p) : p \in kept}}

\* SELECT sample, COUNT(*) as hops FROM background GROUP BY sample
TotalBgHopsDistinct(background) ==
    {[sample |-> background[j].sample, hops |-> 1] : j \in 1..Len(background)}
TotalBgHops(background) ==
    {[sample |-> s,
      hops |-> Cardinality({j \in 1..Len(background) : background[j].sample = s})] :
        s \in {background[j].sample : j \in 1..Len(background)}}

\* ------------------------------------------------------------- exceptions
AttributeError == "AttributeError: db_loc must be a pathlib.PosixPath object"
FileNotFoundError == "FileNotFoundError: Parent directory does not exist"
AlreadyExists == "OperationalError: already exists"
UseDropTable == "OperationalError: use DROP TABLE to delete table"
EngineError == "OperationalError: engine"
IntegrityError == "IntegrityError: UNIQUE constraint failed"

\* Leaving a `with self.engine.connect() as conn:` block, by its end or by an
\* exception, closes conn.
WithExitLeaksOnError(n, byException) == IF byException THEN n ELSE n - 1
WithExit(n, byException) == n - 1

\* An exception leaves the running method: out of __init__ the object is never
\* built; out of a method the client called it goes to the client.
Propagate(exc) ==
    /\ error' = exc
    /\ failedAt' = pc
    /\ pc' = IF caller = "init" THEN "raised" ELSE "done"
    /\ result' = IF caller = "init" THEN "raised" ELSE result

RaiseInWith(exc) ==
    /\ Propagate(exc)
    /\ openConns' = WithExit(openConns, TRUE)
    /\ UNCHANGED <<caller, lastCall, fileExists, schema, tables, viewQuery, log, inputs, it>>

RaiseOutside(exc) ==
    /\ Propagate(exc)
    /\ UNCHANGED <<caller, lastCall, fileExists, schema, tables, viewQuery, openConns,
                   log, inputs, it>>

\* The calls __init__ makes, in order.
InitSequenceBackgroundFirst ==
    <<"add_background", "add_chr_map", "add_regions", "create_region_background_view">>
InitSequence ==
    <<"add_chr_map", "add_background", "add_regions", "create_region_background_view">>

Entry(method) ==
    CASE method = "add_chr_map" -> "chr_connect"
      [] method = "add_background" -> "bg_connect"
      [] method = "add_regions" -> "rg_connect"
      [] method = "create_region_background_view" -> "view_connect"

\* The method returns: __init__ goes on with its next call, or returns itself.
After(method) ==
    IF caller # "init" THEN "done"
    ELSE LET k == CHOOSE i \in 1..Len(InitSequence) : InitSequence[i] = method
         IN  IF k = Len(InitSequence) THEN "done" ELSE Entry(InitSequence[k + 1])
Logged(event) == IF caller = "init" THEN Append(log, event) ELSE log

\* ------------------------------------------------------ shared statements
\* with self.engine.connect() as conn: opening creates the file if missing.
Connect(at, next) ==
    /\ pc = at
    /\ \E engine_ok \in BOOLEAN :
        IF engine_ok
        THEN /\ pc' = next
             /\ openConns' = openConns + 1
             /\ fileExists' = TRUE
             /\ UNCHANGED <<caller, result, error, failedAt, lastCall, schema, tables,
                            viewQuery, log, inputs, it>>
        ELSE RaiseOutside(EngineError)

\* The SELECT a CREATE VIEW of the code stores, by the variable that holds it.
StoredSelect(name) ==
    IF name = "region_background_agg" THEN "create_view_sql"
    ELSE "bg_total_hops_create_sql"

\* conn.execute(CREATE TABLE / CREATE INDEX / CREATE VIEW name ...)
Create(at, name, kind, next) ==
    /\ pc = at
    /\ \E engine_ok \in BOOLEAN :
        IF ~CanCreate(schema, name) THEN RaiseInWith(AlreadyExists)
        ELSE IF ~engine_ok THEN RaiseInWith(EngineError)
        ELSE /\ schema' = [schema EXCEPT ![name] = kind]
             /\ viewQuery' = IF name \in ViewNames
                             THEN [viewQuery EXCEPT ![name] = StoredSelect(name)]
                             ELSE viewQuery
             /\ log' = Logged(<<"create", name>>)
             /\ pc' = next
             /\ UNCHANGED <<caller, result, error, failedAt, lastCall, fileExists,
                            tables, openConns, inputs, it>>

\* the end of the with block; a for loop that follows starts at the first frame
Exit(at, next) ==
    /\ pc = at
    /\ openConns' = WithExit(openConns, FALSE)
    /\ pc' = next
    /\ it' = 0
    /\ UNCHANGED <<caller, error, failedAt, lastCall, fileExists, schema, tables,
                   viewQuery, log, inputs>>

\* ---------------------------------------------------------------- __init__
Resolve ==
    /\ pc = "resolve"
    /\ IF arg = "not_a_path"
       THEN RaiseOutside(AttributeError)
       ELSE /\ pc' = "check_parent"
            /\ UNCHANGED <<caller, result, error, failedAt, lastCall, fileExists, schema,
                           tables, viewQuery, openConns, log, inputs, it>>

ParentExistsUnchecked(a) == TRUE
ParentExists(a) == a # "no_parent_dir"

CheckParent ==
    /\ pc = "check_parent"
    /\ IF ~ParentExists(arg)
       THEN RaiseOutside(FileNotFoundError)
       ELSE /\ pc' = "create_engine"
            /\ UNCHANGED <<caller, result, error, failedAt, lastCall, fileExists, schema,
                           tables, viewQuery, openConns, log, inputs, it>>

\* create_engine is lazy: no connection, no file.  The read_csv calls parse the
\* bundled payloads (the *_df variables).
CreateEngine ==
    /\ pc = "create_engine"
    /\ pc' = Entry(InitSequence[1])
    /\ UNCHANGED <<caller, result, error, failedAt, lastCall, fileExists, schema, tables,
                   viewQuery, openConns, log, inputs, it>>

\* -------------------------------------------------------------- add_chr_map
ChrConnect == Connect("chr_connect", "chr_create")
ChrCreate == Create("chr_create", "chr_map", "table", "chr_exit")
ChrExit == Exit("chr_exit", "chr_load") /\ UNCHANGED result

ChrLoad ==
    /\ pc = "chr_load"
    /\ \E engine_ok \in BOOLEAN :
        IF ~UniqueUcsc(tables.chr_map \o chr_map_df) THEN RaiseOutside(IntegrityError)
        ELSE IF ~engine_ok THEN RaiseOutside(EngineError)
        ELSE /\ tables' = [tables EXCEPT
                              !.chr_map = ToSqlAppend(tables.chr_map, chr_map_df)]
             /\ log' = Logged(<<"insert", "chr_map">>)
             /\ pc' = After("add_chr_map")
             /\ UNCHANGED <<caller, result, error, failedAt, lastCall, fileExists, schema,
                            viewQuery, openConns, inputs, it>>

\* ----------------------------------------------- add_background, add_regions
\* for df in df_list: df.to_sql(name, ...): one firing per frame.
LoadNext(at, name, df_list, method) ==
    /\ pc = at
    /\ it < Len(df_list)
    /\ \E engine_ok \in BOOLEAN :
        IF ~engine_ok THEN RaiseOutside(EngineError)
        ELSE /\ tables' = [tables EXCEPT
                              ![name] = ToSqlAppend(tables[name], df_list[it + 1])]
             /\ log' = Logged(<<"insert", name>>)
             /\ it' = it + 1
             /\ pc' = IF it + 1 = Len(df_list) THEN After(method) ELSE at
             /\ UNCHANGED <<caller, result, error, failedAt, lastCall, fileExists, schema,
                            viewQuery, openConns, inputs>>

BgConnect == Connect("bg_connect", "bg_create")
BgCreate == Create("bg_create", "background", "table", "bg_index")
BgIndex == Create("bg_index", "background_index", "index", "bg_exit")
BgExit == Exit("bg_exit", "bg_load") /\ UNCHANGED result
BgLoad == LoadNext("bg_load", "background", background_df_list, "add_background")

RgConnect == Connect("rg_connect", "rg_create")
RgCreate == Create("rg_create", "regions", "table", "rg_index")
RgIndex == Create("rg_index", "regions_index", "index", "rg_exit")
RgExit == Exit("rg_exit", "rg_load") /\ UNCHANGED result
RgLoad == LoadNext("rg_load", "regions", regions_df_list, "add_regions")

\* ------------------------------------------- create_region_background_view
ViewConnect == Connect("view_connect", "view_drop_agg")

\* conn.execute(DROP VIEW IF EXISTS name)
Drop(at, name, next) ==
    /\ pc = at
    /\ \E engine_ok \in BOOLEAN :
        IF ~CanDropView(schema, name) THEN RaiseInWith(UseDropTable)
        ELSE IF ~engine_ok THEN RaiseInWith(EngineError)
        ELSE /\ schema' = DropView(schema, name)
             /\ viewQuery' = IF schema[name] = "view"
                             THEN [viewQuery EXCEPT ![name] = "none"]
                             ELSE viewQuery
             /\ log' = Logged(<<"drop", name>>)
             /\ pc' = next
             /\ UNCHANGED <<caller, result, error, failedAt, lastCall, fileExists,
                            tables, openConns, inputs, it>>

ViewDropAgg == Drop("view_drop_agg", "region_background_agg", "view_create_agg")
ViewCreateAgg ==
    Create("view_create_agg", "region_background_agg", "view", "view_drop_tot")
ViewDropTot == Drop("view_drop_tot", "total_bg_hops", "view_create_tot")
ViewCreateTotNotExecuted ==
    /\ pc = "view_create_tot"
    /\ pc' = "view_exit"
    /\ UNCHANGED <<caller, result, error, failedAt, lastCall, fileExists, schema, tables,
                   viewQuery, openConns, log, inputs, it>>
ViewCreateTot == Create("view_create_tot", "total_bg_hops", "view", "view_exit")

\* the with block ends and the method, the last statement of __init__, returns
ViewExit ==
    /\ Exit("view_exit", After("create_region_background_view"))
    /\ result' = IF caller = "init" THEN "returned" ELSE result

\* ------------------------------------------------------------ the client
\* A caller that holds the built object calls one of its public methods, with
\* the frames the constructor used.
Methods == {InitSequence[i] : i \in 1..Len(InitSequence)}

ClientCall ==
    /\ pc = "done"
    /\ result = "returned"
    /\ \E method \in Methods :
        /\ lastCall' = method
        /\ pc' = Entry(method)
    /\ caller' = "client"
    /\ error' = "none"
    /\ failedAt' = "none"
    /\ UNCHANGED <<result, fileExists, schema, tables, viewQuery, openConns, log,
                   inputs, it>>

\* ------------------------------------------------------------------ Init
EmptySchema == [n \in ObjectNames |-> "none"]
NoViews == [n \in ViewNames |-> "none"]
NoRows == [n \in TableNames |-> <<>>]

\* What a target file that already exists may hold: at most MaxPreexisting of
\* the names the constructor uses, each a table, an index or a view.
PreexistingSchemas ==
    {s \in [ObjectNames -> {"none", "table", "index", "view"}] :
        Cardinality({n \in ObjectNames : s[n] # "none"}) <= MaxPreexisting}

OldRow(name) ==
    IF name = "chr_map" THEN [ucsc |-> "chrI", id |-> 1]
    ELSE [chr |-> "chrI", start |-> 0, end |-> 0, sample |-> "old", id |-> 1]

PayloadChrMap == SeqsUpTo(ChrMapDfRows, MaxChrMapRows)
PayloadBackground ==
    [1..2 -> SeqsUpTo(BackgroundDfRows({"chrI"}, {0}, {0}, {"adh1"}), MaxDfRows)]
PayloadRegions ==
    [1..2 -> SeqsUpTo(RegionsDfRows({"chrI"}, {0}, {MaxPos}, {"yiming"}), MaxDfRows)]

InitControl ==
    /\ pc = "resolve"
    /\ caller = "init"
    /\ result = "running"
    /\ error = "none"
    /\ failedAt = "none"
    /\ lastCall = "none"
    /\ openConns = 0
    /\ it = 0
    /\ log = <<>>

Init ==
    /\ InitControl
    /\ arg \in {"fresh_path", "existing_path", "no_parent_dir", "not_a_path"}
    /\ chr_map_df \in PayloadChrMap
    /\ background_df_list \in PayloadBackground
    /\ regions_df_list \in PayloadRegions
    /\ fileExists = (arg = "existing_path")
    /\ schema \in IF fileExists THEN PreexistingSchemas ELSE {EmptySchema}
    /\ tables = [n \in TableNames |->
                    IF schema[n] = "table" THEN <<OldRow(n)>> ELSE <<>>]
    /\ viewQuery = [n \in ViewNames |->
                       IF schema[n] = "view" THEN "foreign" ELSE "none"]

\* The payloads the view claims range over: frames of at most MaxViewDfRows
\* rows; chr may be NULL in either table, sample and start in background.
ViewBackground ==
    [1..2 -> SeqsUpTo(BackgroundDfRows(Chrs \cup {NULL_TEXT}, Positions \cup {NULL_INT},
                                       {MaxPos}, BgSamples \cup {NULL_TEXT}),
                      MaxViewDfRows)]
ViewRegions ==
    [1..2 -> SeqsUpTo(RegionsDfRows(Chrs \cup {NULL_TEXT}, Positions, Positions,
                                    {"yiming"}),
                      MaxViewDfRows)]

RECURSIVE ToSqlAll(_, _)
ToSqlAll(table, df_list) ==
    IF df_list = <<>> THEN table
    ELSE ToSqlAll(ToSqlAppend(table, Head(df_list)), Tail(df_list))

\* __init__ on a fresh path, at its call of create_region_background_view.
InitView ==
    /\ arg = "fresh_path"
    /\ chr_map_df = <<[ucsc |-> "chrI"], [ucsc |-> "chrII"]>>
    /\ background_df_list \in ViewBackground
    /\ regions_df_list \in ViewRegions
    /\ pc = Entry("create_region_background_view")
    /\ caller = "init"
    /\ result = "running"
    /\ error = "none"
    /\ failedAt = "none"
    /\ lastCall = "none"
    /\ fileExists = TRUE
    /\ schema = [n \in ObjectNames |->
                    IF n \in TableNames THEN "table"
                    ELSE IF n \in IndexNames THEN "index" ELSE "none"]
    /\ tables = [chr_map |-> ToSqlAll(<<>>, <<chr_map_df>>),
                 background |-> ToSqlAll(<<>>, background_df_list),
                 regions |-> ToSqlAll(<<>>, regions_df_list)]
    /\ viewQuery = NoViews
    /\ openConns = 0
    /\ it = Len(regions_df_list)
    /\ log = <<<<"create", "chr_map">>, <<"insert", "chr_map">>,
               <<"create", "background">>, <<"create", "background_index">>,
               <<"insert", "background">>, <<"insert", "background">>,
               <<"create", "regions">>, <<"create", "regions_index">>,
               <<"insert", "regions">>, <<"insert", "regions">>>>

Next ==
    \/ Resolve \/ CheckParent \/ CreateEngine
    \/ ChrConnect \/ ChrCreate \/ ChrExit \/ ChrLoad
    \/ BgConnect \/ BgCreate \/ BgIndex \/ BgExit \/ BgLoad
    \/ RgConnect \/ RgCreate \/ RgIndex \/ RgExit \/ RgLoad
    \/ ViewConnect \/ ViewDropAgg \/ ViewCreateAgg \/ ViewDropTot \/ ViewCreateTot
    \/ ViewExit
    \/ ClientCall

Spec == Init /\ [][Next]_vars

NextView ==
    \/ ViewConnect \/ ViewDropAgg \/ ViewCreateAgg \/ ViewDropTot \/ ViewCreateTot
    \/ ViewExit

SpecView == InitView /\ [][NextView]_vars

\* What a SELECT * on each view returns in the current state.
region_background_agg == RegionBackgroundAgg(tables.regions, tables.background)
total_bg_hops == TotalBgHops(tables.background)

\* ================================================================ claims
StripId(row) == [f \in DOMAIN row \ {"id"} |-> row[f]]
StripIds(table) == [i \in 1..Len(table) |-> StripId(table[i])]

AggCreated == viewQuery["region_background_agg"] = "create_view_sql"
TotCreated == viewQuery["total_bg_hops"] = "bg_total_hops_create_sql"

\* x is a hit of r: same chromosome, r.start <= x.start <= r.end; x.end is not read.
Hit(r, x) ==
    /\ x.chr # NULL_TEXT /\ r.chr # NULL_TEXT /\ x.chr = r.chr
    /\ x.start # NULL_INT /\ r.start # NULL_INT /\ r.end # NULL_INT
    /\ r.start <= x.start /\ x.start <= r.end

\* the background rows with sample value s that are hits of regions row i
HitsOf(i, s) ==
    {j \in 1..Len(tables.background) :
        /\ tables.background[j].sample = s
        /\ Hit(tables.regions[i], tables.background[j])}

SampleValues == {tables.background[j].sample : j \in 1..Len(tables.background)}

KeyOfRow(v) ==
    <<v.regions_sample, v.background_sample, v.chr, v.start, v.end, v.region_id>>
KeyOfPair(i, s) ==
    LET r == tables.regions[i] IN <<r.sample, s, r.chr, r.start, r.end, r.id>>

\* C1: once region_background_agg is created, every region r and background
\* sample value s with at least one hit of r have exactly one row keyed
\* (r.sample, s, r.chr, r.start, r.end, r.id), whose background_hops is the
\* number of those hits; and every row of the view is such a row, so no
\* background row on another chromosome or with start outside [r.start, r.end]
\* is counted.
C1_IntervalJoin ==
    AggCreated =>
        /\ \A i \in 1..Len(tables.regions), s \in SampleValues :
              HitsOf(i, s) # {} =>
                 /\ Cardinality({v \in region_background_agg :
                                    KeyOfRow(v) = KeyOfPair(i, s)}) = 1
                 /\ \A v \in region_background_agg :
                       KeyOfRow(v) = KeyOfPair(i, s) =>
                          v.background_hops = Cardinality(HitsOf(i, s))
        /\ \A v \in region_background_agg :
              \E i \in 1..Len(tables.regions) :
                 /\ KeyOfRow(v) = KeyOfPair(i, v.background_sample)
                 /\ v.background_hops = Cardinality(HitsOf(i, v.background_sample))

\* Two regions, one of them with two hits of one sample and the other with a
\* background row it does not contain.
C1_Witness ==
    /\ pc = "done"
    /\ AggCreated
    /\ Len(tables.regions) = 2
    /\ \E v \in region_background_agg : v.background_hops = 2
    /\ \E i \in 1..Len(tables.regions), j \in 1..Len(tables.background) :
          /\ tables.background[j].chr = tables.regions[i].chr
          /\ ~Hit(tables.regions[i], tables.background[j])

\* C2 as stated: every row of region_background_agg has a non-NULL
\* background_sample and background_hops >= 1, and a region with no hit for a
\* background sample has no row for it.
C2_NonNullSample ==
    AggCreated =>
        /\ \A v \in region_background_agg :
              v.background_sample # NULL_TEXT /\ v.background_hops >= 1
        /\ \A i \in 1..Len(tables.regions), s \in SampleValues :
              HitsOf(i, s) = {} =>
                 \A v \in region_background_agg : KeyOfRow(v) # KeyOfPair(i, s)

\* C2 amended: every row of region_background_agg stands for at least one real
\* hit: background_hops >= 1 is the number of background rows that are hits of
\* the row's region and carry the row's background_sample (NULL only when those
\* background rows have a NULL sample themselves, never from the LEFT JOIN's
\* padding), and a region with no hit for a background sample has no row for it.
C2_OnlyRealHits ==
    AggCreated =>
        /\ \A v \in region_background_agg :
              /\ v.background_hops >= 1
              /\ v.background_sample \in SampleValues
              /\ \E i \in 1..Len(tables.regions) :
                    /\ v.region_id = tables.regions[i].id
                    /\ HitsOf(i, v.background_sample) # {}
        /\ \A i \in 1..Len(tables.regions), s \in SampleValues :
              HitsOf(i, s) = {} =>
                 \A v \in region_background_agg : KeyOfRow(v) # KeyOfPair(i, s)

\* A region without any hit beside a region that has one.
C2_Witness ==
    /\ pc = "done"
    /\ AggCreated
    /\ \E i \in 1..Len(tables.regions) : \A s \in SampleValues : HitsOf(i, s) = {}
    /\ region_background_agg # {}

\* C3: once total_bg_hops is created it has, for every sample value of
\* background, exactly one row, whose hops is the number of background rows
\* with that value, and no row for a value background does not hold.
C3_Totals ==
    TotCreated =>
        /\ \A s \in SampleValues :
              /\ Cardinality({v \in total_bg_hops : v.sample = s}) = 1
              /\ \A v \in total_bg_hops :
                    v.sample = s =>
                       v.hops = Cardinality({j \in 1..Len(tables.background) :
                                                tables.background[j].sample = s})
        /\ \A v \in total_bg_hops : v.sample \in SampleValues

\* Two samples, one of them on two rows, needs three rows; with two rows: one
\* sample on both.
C3_Witness ==
    /\ pc = "done"
    /\ TotCreated
    /\ \E v \in total_bg_hops : v.hops = 2

\* C4: when the constructor returns for a path to a file that did not exist
\* (and before the client calls anything on the object), the file exists and
\* holds the three tables and the two views.
C4_Provisioned ==
    (result = "returned" /\ lastCall = "none" /\ arg = "fresh_path") =>
        /\ fileExists
        /\ \A n \in TableNames : schema[n] = "table"
        /\ \A n \in ViewNames : schema[n] = "view"
        /\ AggCreated
        /\ TotCreated

C4_Witness == result = "returned" /\ lastCall = "none" /\ arg = "fresh_path"

\* C5: when the constructor has returned, each table holds the rows of all
\* the frames loaded into it, in order, none dropped, merged or replaced.
C5_RowCounts ==
    result = "returned" =>
        /\ Len(tables.chr_map) = Len(chr_map_df)
        /\ Len(tables.background) = SumLen(background_df_list)
        /\ Len(tables.regions) = SumLen(regions_df_list)
        /\ StripIds(tables.chr_map) = chr_map_df
        /\ StripIds(tables.background) = Concat(background_df_list)
        /\ StripIds(tables.regions) = Concat(regions_df_list)

C5_Witness ==
    /\ result = "returned"
    /\ Len(chr_map_df) = 2
    /\ \A k \in 1..2 : background_df_list[k] # <<>> /\ regions_df_list[k] # <<>>

\* ------------------------------------------------------------ C6: order
CountBefore(event, k) == Cardinality({m \in 1..(k - 1) : log[m] = event})
Before(event, k) == CountBefore(event, k) > 0
Count(event) == CountBefore(event, Len(log) + 1)
IndexOf(table) == IF table = "background" THEN "background_index" ELSE "regions_index"

AllLoadedBefore(k) ==
    /\ CountBefore(<<"insert", "chr_map">>, k) = 1
    /\ CountBefore(<<"insert", "background">>, k) = Len(background_df_list)
    /\ CountBefore(<<"insert", "regions">>, k) = Len(regions_df_list)

\* chr_map rows before any background row, background rows before any regions
\* row, no view before all rows; every statement once.
C6_LoadOrder ==
    /\ \A k \in 1..Len(log) :
          /\ log[k] = <<"insert", "background">> => Before(<<"insert", "chr_map">>, k)
          /\ log[k] = <<"insert", "regions">> =>
                CountBefore(<<"insert", "background">>, k) = Len(background_df_list)
          /\ (log[k][1] \in {"create", "drop"} /\ log[k][2] \in ViewNames) =>
                AllLoadedBefore(k)
          /\ log[k][1] \in {"create", "drop"} => Count(log[k]) = 1
    /\ Count(<<"insert", "chr_map">>) <= 1
    /\ Count(<<"insert", "background">>) <= Len(background_df_list)
    /\ Count(<<"insert", "regions">>) <= Len(regions_df_list)
    /\ result = "returned" =>
          /\ AllLoadedBefore(Len(log) + 1)
          /\ \A n \in ObjectNames : Count(<<"create", n>>) = 1
          /\ \A n \in ViewNames : Count(<<"drop", n>>) = 1

\* C6 as stated: besides the order of the loads, no row goes into any table
\* before all three tables and both indexes are created.
C6_SchemaBeforeAnyRow ==
    /\ C6_LoadOrder
    /\ \A k \in 1..Len(log) :
          log[k][1] = "insert" =>
             \A n \in TableNames \cup IndexNames : Before(<<"create", n>>, k)

\* C6 amended: the constructor runs add_chr_map, add_background, add_regions
\* and create_region_background_view once each, in that order, and each add_*
\* creates its own table (and index) and then loads it: no row goes into a
\* table before that table and its index are created, chr_map rows go in
\* before any background row, background rows before any regions row, and no
\* view is created before all rows are loaded.
C6_OwnTableBeforeRows ==
    /\ C6_LoadOrder
    /\ \A k \in 1..Len(log) :
          log[k][1] = "insert" =>
             /\ Before(<<"create", log[k][2]>>, k)
             /\ log[k][2] # "chr_map" => Before(<<"create", IndexOf(log[k][2])>>, k)

C6_Witness ==
    /\ result = "returned"
    /\ chr_map_df # <<>>
    /\ background_df_list[1] # <<>>
    /\ regions_df_list[2] # <<>>
    /\ Len(log) = 14

\* --------------------------------------------------- C7: table exists
CreateAt(table) ==
    CASE table = "chr_map" -> "chr_create"
      [] table = "background" -> "bg_create"
      [] table = "regions" -> "rg_create"

\* C7: a CREATE TABLE step of the constructor that finds its table in the file
\* fails with the already-exists error, changes no table, no schema object and
\* no view, and ends the constructor; after the constructor has raised, no
\* step runs, so nothing later is executed and nothing is retried.
C7_TableExistsAborts ==
    [][/\ \A t \in TableNames :
             (pc = CreateAt(t) /\ caller = "init" /\ schema[t] = "table") =>
                /\ error' = AlreadyExists
                /\ failedAt' = CreateAt(t)
                /\ result' = "raised"
                /\ pc' = "raised"
                /\ tables' = tables
                /\ schema' = schema
                /\ viewQuery' = viewQuery
                /\ log' = log
       /\ result = "raised" => UNCHANGED vars]_vars

\* background was there: chr_map was created and loaded, then CREATE TABLE
\* "background" failed.
C7_Witness ==
    /\ result = "raised"
    /\ failedAt = "bg_create"
    /\ error = AlreadyExists
    /\ schema["background"] = "table"
    /\ tables.background = <<OldRow("background")>>
    /\ tables.chr_map # <<>>

\* ------------------------------------------------------- C8: bad paths
Untouched ==
    /\ ~fileExists
    /\ schema = EmptySchema
    /\ tables = NoRows
    /\ viewQuery = NoViews
    /\ openConns = 0
    /\ log = <<>>

\* C8: with a path under a missing directory the constructor raises the
\* missing-parent error, with an argument that is no path object the
\* must-be-a-path error; neither gets as far as opening the database, and no
\* file, table, index, row or view exists at any time.
C8_BadPath ==
    /\ arg = "no_parent_dir" =>
          /\ pc \in {"resolve", "check_parent", "raised"}
          /\ pc = "raised" => error = FileNotFoundError /\ result = "raised"
          /\ Untouched
    /\ arg = "not_a_path" =>
          /\ pc \in {"resolve", "raised"}
          /\ pc = "raised" => error = AttributeError /\ result = "raised"
          /\ Untouched

C8_Witness == arg = "no_parent_dir" /\ result = "raised" /\ failedAt = "check_parent"

\* ------------------------------------------------- C9: a second load call
LoadMethods == {"add_chr_map", "add_background", "add_regions"}
TableOf(method) ==
    CASE method = "add_chr_map" -> "chr_map"
      [] method = "add_background" -> "background"
      [] method = "add_regions" -> "regions"
FramesOf(method) ==
    CASE method = "add_chr_map" -> <<chr_map_df>>
      [] method = "add_background" -> background_df_list
      [] method = "add_regions" -> regions_df_list

SecondCallEnded == pc = "done" /\ lastCall \in LoadMethods

\* C9 as stated: a load method called again on the built object succeeds and
\* the table then holds the rows of both calls.
C9_SecondCallAppends ==
    SecondCallEnded =>
        /\ error = "none"
        /\ StripIds(tables[TableOf(lastCall)]) =
              Concat(FramesOf(lastCall)) \o Concat(FramesOf(lastCall))

\* C9 amended: a load method called again on the built object, whose table
\* exists, never succeeds: it fails at its CREATE TABLE with the
\* already-exists error (or before it, when no connection can be opened),
\* appends nothing and replaces or removes no row.  Rows accumulate across
\* the frames of one call: the table holds the rows of every frame of the
\* first call, in order, repeated rows included.
C9_SecondCallFails ==
    SecondCallEnded =>
        /\ error \in {AlreadyExists, EngineError}
        /\ error = AlreadyExists <=> failedAt = CreateAt(TableOf(lastCall))
        /\ error = EngineError => failedAt = Entry(lastCall)
        /\ \A m \in LoadMethods : StripIds(tables[TableOf(m)]) = Concat(FramesOf(m))

\* add_background called again after both frames held the same row.
C9_Witness ==
    /\ SecondCallEnded
    /\ lastCall = "add_background"
    /\ failedAt = "bg_create"
    /\ Len(tables.background) = 2
    /\ StripId(tables.background[1]) = StripId(tables.background[2])

\* ------------------------------------------------------ C10: connections
\* C10: whenever no method is running, because the constructor or a later
\* call has returned or raised, no connection is open.
C10_ConnectionsClosed == pc \in {"done", "raised"} => openConns = 0

\* The constructor raised inside a with block, at CREATE INDEX.
C10_Witness ==
    /\ result = "raised"
    /\ failedAt \in {"bg_index", "rg_index"}
    /\ fileExists

====
